---- MODULE Spec2Model ----
(***************************************************************************)
(* Retrieval-augmented chat pipeline: document ingestion (RAGService),     *)
(* the in-memory vector index (VectorService) and retrieval.               *)
(*                                                                         *)
(* Modules are modelled as Python resolves them: src.services.             *)
(* vector_service, src.database.db, src.core.ai_engine and                 *)
(* src.utils.file_handler are the files under src/src/; RAGService,        *)
(* ChatService and the routes are the files importing them.  The table     *)
(* layout is the one of Database.create_tables.                            *)
(*                                                                         *)
(* Every coroutine is cut at the awaits that really suspend (the           *)
(* asyncio.to_thread calls of Database and FileHandler.extract_text): a    *)
(* step is the code leading to such an await together with the statement   *)
(* the await waits for.  VectorService's and AIService.embed's coroutines  *)
(* never suspend, so they run in the same step as the code around them.    *)
(***************************************************************************)
EXTENDS Integers, Sequences, FiniteSets, TLC

(* ---------------------------- bounds ----------------------------------- *)
\* ingestion (Spec)
MaxDocs == 2        \* documents ever uploaded
MaxAttempts == 2    \* process_document coroutines ever started
MaxChunkIds == 3    \* chunk ids ever drawn
MaxDeletes == 1     \* delete_document calls ever made
MaxTasks == 2       \* process_document coroutines alive at once
\* retrieval (SpecRetrieval)
RetrDocs == 2
RetrAttempts == 2
RetrChunkIds == 2
RetrDeletes == 1
RetrTasks == 1
MaxCalls == 1       \* search_documents / rag_chat calls ever made
MaxPending == 1     \* search_documents coroutines suspended at once
MaxLimit == 1       \* largest `limit` passed to search
\* VectorService on its own (SpecVS)
MaxEntries == 3     \* add_chunk calls ever made
VSDocs == 2         \* document ids passed to VectorService
VSChunkIds == 2     \* chunk ids passed to add_chunk
\* FileHandler.split_text on its own (SpecSplit)
MaxLen == 6         \* longest text of the exhaustive part
MaxSize == 4        \* largest chunk_size and overlap of the exhaustive part
\* rag_chat's context formatting on its own (SpecAssemble)
MaxConversations == 2
MaxSaves == 2
MaxHistLimit == 2
MaxOffset == 1
MaxSources == 3     \* sources in one context

(* ------------------------ program constants ---------------------------- *)
ChunkSize == 1000
Overlap == 200
RagLimit == 5
ContentCap == 500   \* item['content'][:500]

Users == {"u1", "u2"}
TextLens == {50, 1500}
RetrLens == {50}
Embeddings == {7, 9}
Limits == 1..MaxLimit
NULL == "NULL"

VARIABLES
  documents,       \* table documents: id -> row
  files,           \* ./documents/raw: document id -> length of the stored text
  document_chunks, \* table document_chunks: set of rows
  index,           \* RAGService.vector_service.index (insertion-ordered dict)
  chatIndex,       \* ChatService.vector_service.index (its own VectorService())
  tasks,           \* process_document coroutines: the set of their frames
  deletes,         \* delete_document coroutines suspended before their last DELETE
  searches,        \* search_documents coroutines suspended after their SELECT
  caps,            \* the budgets of this exploration (never change)
  nextDoc,         \* uuid4 source for document ids
  nextChunk,       \* uuid4 source for chunk ids
  clock,           \* add_chunk calls so far (insertion order)
  attempts,        \* process_document coroutines started so far
  nDeletes,        \* delete_document calls made so far
  nCalls,          \* search_documents and rag_chat calls made so far
  results,         \* what the last search / rag_chat returned
  call,            \* the arguments of that call
  owner,           \* history: who uploaded each document id
  unhandled,       \* process_document tasks that ended with an exception
  seg,             \* a split_text call: its arguments, locals and position
  asm,             \* a context assembly of rag_chat: its input and result
  chat,            \* a completion request: create_completion / stream_completion
  chat_history,    \* table chat_history: set of rows
  chat_context,    \* table chat_context: set of rows
  saves,           \* save_to_history coroutines: the set of their frames
  nextConv,        \* uuid4 source for conversation ids
  utcnow,          \* the clock read by datetime.utcnow()
  reply            \* what the last ChatService call returned to its caller

vars == <<documents, files, document_chunks, index, chatIndex, tasks, deletes,
          searches, caps, nextDoc, nextChunk, clock, attempts, nDeletes,
          nCalls, results, call, owner, unhandled, seg, asm, chat,
          chat_history, chat_context, saves, nextConv, utcnow, reply>>

\* the parts of the state the pipeline's own operations leave alone
chatStore == <<chat_history, chat_context, saves, nextConv, utcnow, reply>>

aux == <<unhandled, seg, asm, chat, chatStore>>

retrieval == <<chatIndex, searches, results, call, nCalls, caps, aux>>

ingestion == <<documents, files, document_chunks, tasks, deletes, nextDoc,
               nextChunk, attempts, nDeletes, owner>>

Min(a, b) == IF a < b THEN a ELSE b

(* ------------------------- FileHandler --------------------------------- *)
\* A text is known by its length; a chunk text[start:stop] by its span.
RECURSIVE SplitFrom(_, _, _, _)
SplitFrom(start, len, chunk_size, overlap) ==
  IF start < len
  THEN <<[start |-> start, stop |-> Min(start + chunk_size, len)]>>
         \o SplitFrom(start + chunk_size - overlap, len, chunk_size, overlap)
  ELSE <<>>

split_text(len, chunk_size, overlap) ==
  IF len = 0 THEN <<>> ELSE SplitFrom(0, len, chunk_size, overlap)

(* --------------------------- AIService --------------------------------- *)
\* embed: a deterministic digest of the chunk text
embed(content) == (31 * content.start + content.stop) % 256

(* -------------------------- VectorService ------------------------------ *)
\* The dict is a sequence of [key, chunks] in key insertion order.
Keys(idx) == [k \in 1..Len(idx) |-> idx[k].key]

HasKey(idx, d) == \E k \in 1..Len(idx) : idx[k].key = d

\* self.index.get(did, [])
IndexGet(idx, d) ==
  IF HasKey(idx, d)
  THEN idx[CHOOSE k \in 1..Len(idx) : idx[k].key = d].chunks
  ELSE <<>>

\* self.index.setdefault(document_id, []).append({...})
add_chunk(idx, document_id, entry) ==
  IF HasKey(idx, document_id)
  THEN [k \in 1..Len(idx) |->
          IF idx[k].key = document_id
          THEN [key |-> document_id, chunks |-> Append(idx[k].chunks, entry)]
          ELSE idx[k]]
  ELSE Append(idx, [key |-> document_id, chunks |-> <<entry>>])

\* if document_id in self.index: del self.index[document_id]
vs_delete_document(idx, document_id) ==
  SelectSeq(idx, LAMBDA e : e.key # document_id)

\* chunks[:limit] for limit >= 0
Take(s, n) == SubSeq(s, 1, Min(n, Len(s)))

AsResult(did, chunk) ==
  [document_id |-> did, chunk_id |-> chunk.chunk_id, content |-> chunk.content,
   score |-> 1, metadata |-> chunk.metadata, seq |-> chunk.seq]

RECURSIVE SearchDocs(_, _, _)
SearchDocs(idx, docs, limit) ==
  IF docs = <<>> THEN <<>>
  ELSE LET did == Head(docs)
           part == Take(IndexGet(idx, did), limit)
       IN [k \in 1..Len(part) |-> AsResult(did, part[k])]
            \o SearchDocs(idx, Tail(docs), limit)

\* document_ids is None when hasIds is FALSE
search(idx, hasIds, document_ids, limit) ==
  SearchDocs(idx, IF hasIds THEN document_ids ELSE Keys(idx), limit)

\* every stored entry with the key it is stored under and its place in the list
AllEntries(idx) ==
  UNION {{[doc |-> idx[k].key, pos |-> j, chunk |-> idx[k].chunks[j]] :
            j \in 1..Len(idx[k].chunks)} : k \in 1..Len(idx)}

EntriesOf(idx, d) == {e \in AllEntries(idx) : e.doc = d}

(* ----------------------------- state ----------------------------------- *)
NoCall == [op |-> "none", user |-> "none", hasIds |-> FALSE, ids |-> <<>>, limit |-> 0]

Cold ==
  /\ documents = <<>>
  /\ files = <<>>
  /\ document_chunks = {}
  /\ index = <<>>
  /\ chatIndex = <<>>
  /\ tasks = {}
  /\ deletes = {}
  /\ searches = {}
  /\ nextDoc = 1
  /\ nextChunk = 1
  /\ clock = 0
  /\ attempts = 0
  /\ nDeletes = 0
  /\ nCalls = 0
  /\ results = <<>>
  /\ call = NoCall
  /\ owner = <<>>
  /\ unhandled = 0
  /\ chat_history = {}
  /\ chat_context = {}
  /\ saves = {}
  /\ nextConv = 1
  /\ utcnow = 1
  /\ reply = [op |-> "none"]

\* no split_text call, no context assembly, no completion request
NoSplit == [pc |-> "none"]

NoAssembly == [pc |-> "none"]

NoChat == [pc |-> "none"]

Init ==
  /\ Cold
  /\ seg = NoSplit /\ asm = NoAssembly /\ chat = NoChat
  /\ caps = [docs |-> MaxDocs, attempts |-> MaxAttempts,
             chunks |-> MaxChunkIds, deletes |-> MaxDeletes,
             tasks |-> MaxTasks, calls |-> 0, lens |-> TextLens]

DocIds == 1..caps.docs

RowsOf(d) == {r \in document_chunks : r.document_id = d}

RECURSIVE SortedSeq(_)
SortedSeq(S) ==
  IF S = {} THEN <<>>
  ELSE LET m == CHOOSE x \in S : \A y \in S : x <= y
       IN <<m>> \o SortedSeq(S \ {m})

NewDocument(u) ==
  [user_id |-> u, processed |-> 0, chunks_count |-> 0,
   processing_started |-> FALSE, processed_at |-> FALSE,
   processing_error |-> NULL]

\* the frame of a process_document coroutine
NewTask(d, u) ==
  [pc |-> "fetch", doc |-> d, user |-> u, document |-> FALSE,
   chunks |-> <<>>, i |-> 0, inserted |-> {}, err |-> NULL]

\* frame t moves on to t2 (two coroutines never share one frame value)
Step(t, t2) ==
  /\ t2 \notin tasks
  /\ tasks' = (tasks \ {t}) \cup {t2}

\* UPDATE documents SET ... WHERE id = d
UpdateDoc(d, row) ==
  IF d \in DOMAIN documents
  THEN [documents EXCEPT ![d] = row]
  ELSE documents

(* --------------------------- RAGService -------------------------------- *)
\* add_document: INSERT INTO documents, then create_task(process_document)
add_document(u, len, process_now) ==
  /\ nextDoc <= caps.docs
  /\ process_now => (attempts < caps.attempts /\ Cardinality(tasks) < caps.tasks)
  /\ documents' = documents @@ (nextDoc :> NewDocument(u))
  /\ files' = files @@ (nextDoc :> len)
  /\ owner' = owner @@ (nextDoc :> u)
  /\ nextDoc' = nextDoc + 1
  /\ tasks' = IF process_now THEN tasks \cup {NewTask(nextDoc, u)} ELSE tasks
  /\ attempts' = IF process_now THEN attempts + 1 ELSE attempts
  /\ UNCHANGED <<document_chunks, index, deletes, nextChunk, nDeletes, clock,
                 retrieval>>

\* POST /documents/{document_id}/process
process_document(d, u) ==
  /\ attempts < caps.attempts
  /\ Cardinality(tasks) < caps.tasks
  /\ NewTask(d, u) \notin tasks
  /\ tasks' = tasks \cup {NewTask(d, u)}
  /\ attempts' = attempts + 1
  /\ UNCHANGED <<documents, files, document_chunks, index, deletes, nextDoc,
                 nextChunk, nDeletes, clock, owner, retrieval>>

\* SELECT * FROM documents WHERE id = ? AND user_id = ?
ProcFetch(t) ==
  /\ t.pc = "fetch"
  /\ Step(t, [t EXCEPT !.pc = "mark",
                       !.document = /\ t.doc \in DOMAIN documents
                                    /\ documents[t.doc].user_id = t.user])
  /\ UNCHANGED <<documents, files, document_chunks, index, deletes, nextDoc,
                 nextChunk, attempts, nDeletes, clock, owner, retrieval>>

\* the row after the except handler's UPDATE ... SET processing_error
RecordError(row, e) == [row EXCEPT !.processing_error = e]

\* the row after UPDATE documents SET processing_started
MarkStarted(row) == [row EXCEPT !.processing_started = TRUE]

\* if not document: raise ValueError, handled by the except clause;
\* else UPDATE documents SET processing_started
ProcMark(t) ==
  /\ t.pc = "mark"
  /\ IF t.document
     THEN /\ documents' = IF t.doc \in DOMAIN documents
                          THEN UpdateDoc(t.doc, MarkStarted(documents[t.doc]))
                          ELSE documents
          /\ Step(t, [t EXCEPT !.pc = "extract"])
     ELSE /\ documents' = IF t.doc \in DOMAIN documents
                          THEN UpdateDoc(t.doc, RecordError(documents[t.doc], "Document not found"))
                          ELSE documents
          /\ tasks' = tasks \ {t}
  /\ UNCHANGED <<files, document_chunks, index, deletes, nextDoc, nextChunk,
                 attempts, nDeletes, clock, owner, retrieval>>

\* extract_text, split_text
ProcExtract(t) ==
  LET chunks == split_text(files[t.doc], ChunkSize, Overlap) IN
  /\ t.pc = "extract"
  /\ Step(t, [t EXCEPT !.chunks = chunks, !.i = 0,
                       !.pc = IF chunks = <<>> THEN "final" ELSE "chunk"])
  /\ UNCHANGED <<documents, files, document_chunks, index, deletes, nextDoc,
                 nextChunk, attempts, nDeletes, clock, owner, retrieval>>

\* one turn of the loop: embed, add_chunk, INSERT INTO document_chunks.
\* fail names the step that raises in this turn.
ProcChunk(t, fail) ==
  LET chunk == t.chunks[t.i + 1]
      entry == [chunk_id |-> nextChunk, content |-> chunk,
                embedding |-> embed(chunk),
                metadata |-> [chunk_index |-> t.i, user_id |-> t.user],
                seq |-> clock + 1]
      row == [id |-> nextChunk, document_id |-> t.doc, content |-> chunk,
              chunk_index |-> t.i]
  IN
  /\ t.pc = "chunk"
  /\ nextChunk <= caps.chunks
  /\ IF fail = "embed"
     THEN /\ Step(t, [t EXCEPT !.pc = "except", !.err = "embed failed"])
          /\ UNCHANGED <<index, document_chunks, nextChunk, clock>>
     ELSE /\ index' = add_chunk(index, t.doc, entry)
          /\ nextChunk' = nextChunk + 1
          /\ clock' = clock + 1
          /\ IF fail = "insert"
             THEN /\ Step(t, [t EXCEPT !.pc = "except", !.err = "insert failed",
                                       !.inserted = @ \cup {nextChunk}])
                  /\ UNCHANGED document_chunks
             ELSE /\ document_chunks' = document_chunks \cup {row}
                  /\ Step(t, [t EXCEPT !.i = t.i + 1,
                                       !.inserted = @ \cup {nextChunk},
                                       !.pc = IF t.i + 1 = Len(t.chunks)
                                              THEN "final" ELSE "chunk"])
  /\ UNCHANGED <<documents, files, deletes, nextDoc, attempts, nDeletes,
                 owner, retrieval>>

\* The UPDATE below without its chunks_count column. C15 rests on the count
\* being written, and does not hold of this variant.
MarkProcessedNoCount(row, n) ==
  [row EXCEPT !.processed = 1, !.processed_at = TRUE]

\* the row after UPDATE documents SET processed = 1, chunks_count = ?, processed_at = ?
MarkProcessed(row, n) ==
  [row EXCEPT !.processed = 1, !.chunks_count = n, !.processed_at = TRUE]

ProcFinal(t) ==
  /\ t.pc = "final"
  /\ documents' = IF t.doc \in DOMAIN documents
                  THEN UpdateDoc(t.doc, MarkProcessed(documents[t.doc], Len(t.chunks)))
                  ELSE documents
  /\ tasks' = tasks \ {t}
  /\ UNCHANGED <<files, document_chunks, index, deletes, nextDoc, nextChunk,
                 attempts, nDeletes, clock, owner, retrieval>>

\* except Exception: UPDATE documents SET processing_error = ? WHERE id = ?
ProcExcept(t) ==
  /\ t.pc = "except"
  /\ documents' = IF t.doc \in DOMAIN documents
                  THEN UpdateDoc(t.doc, RecordError(documents[t.doc], t.err))
                  ELSE documents
  /\ tasks' = tasks \ {t}
  /\ UNCHANGED <<files, document_chunks, index, deletes, nextDoc, nextChunk,
                 attempts, nDeletes, clock, owner, retrieval>>

\* delete_document up to its last await: vector delete, DELETE FROM document_chunks
delete_document(d, u) ==
  /\ nDeletes < caps.deletes
  /\ <<d, u>> \notin deletes
  /\ nDeletes' = nDeletes + 1
  /\ index' = vs_delete_document(index, d)
  /\ document_chunks' = document_chunks \ RowsOf(d)
  /\ deletes' = deletes \cup {<<d, u>>}
  /\ UNCHANGED <<documents, files, tasks, nextDoc, nextChunk, attempts,
                 clock, owner, retrieval>>

\* DELETE FROM documents WHERE id = ? AND user_id = ?; return rowcount > 0
DeleteFinish(d, u) ==
  LET hit == d \in DOMAIN documents /\ documents[d].user_id = u IN
  /\ <<d, u>> \in deletes
  /\ deletes' = deletes \ {<<d, u>>}
  /\ documents' = IF hit
                  THEN [x \in DOMAIN documents \ {d} |-> documents[x]]
                  ELSE documents
  /\ UNCHANGED <<files, document_chunks, index, tasks, nextDoc, nextChunk,
                 attempts, nDeletes, clock, owner, retrieval>>

NextIngest ==
  \/ \E u \in Users, len \in caps.lens, now \in BOOLEAN : add_document(u, len, now)
  \/ \E d \in DocIds, u \in Users : process_document(d, u)
  \/ \E t \in tasks : ProcFetch(t)
  \/ \E t \in tasks : ProcMark(t)
  \/ \E t \in tasks : ProcExtract(t)
  \/ \E t \in tasks, fail \in {"none", "embed", "insert"} : ProcChunk(t, fail)
  \/ \E t \in tasks : ProcFinal(t)
  \/ \E t \in tasks : ProcExcept(t)
  \/ \E d \in DocIds, u \in Users : delete_document(d, u)
  \/ \E d \in DocIds, u \in Users : DeleteFinish(d, u)

Spec == Init /\ [][NextIngest]_vars

\* The SELECT below without its user_id condition: the ids of every processed
\* document. C9 rests on the condition, and does not hold of this variant.
UserDocsAnyOwner(u) ==
  SortedSeq({d \in DOMAIN documents : documents[d].processed = 1})

\* SELECT id FROM documents WHERE user_id = ? AND processed = 1
UserDocs(u) ==
  SortedSeq({d \in DOMAIN documents :
               documents[d].user_id = u /\ documents[d].processed = 1})

\* search_documents up to its await of the SELECT
search_documents(u, limit) ==
  /\ nCalls < caps.calls
  /\ Cardinality(searches) < MaxPending
  /\ nCalls' = nCalls + 1
  /\ searches' = searches \cup {[user |-> u, ids |-> UserDocs(u), limit |-> limit]}
  /\ UNCHANGED <<ingestion, index, clock, chatIndex, results, call, caps, aux>>

\* self.vector_service.search(query, document_ids, limit); return results
SearchFinish(s) ==
  /\ s \in searches
  /\ searches' = searches \ {s}
  /\ results' = search(index, TRUE, s.ids, s.limit)
  /\ call' = [op |-> "search_documents", user |-> s.user, hasIds |-> TRUE,
              ids |-> s.ids, limit |-> s.limit]
  /\ UNCHANGED <<ingestion, index, clock, chatIndex, nCalls, caps, aux>>

(* ------------------- ChatService's history store ----------------------- *)
\* Text is the sequence of its words, so that "+" on str is \o.
\* AIService.chat_completion: the content of the mocked completion
MockContent == <<"This", "is", "a", "mocked", "chat", "completion", "response.">>

\* the INSERT statements of one save_to_history call, in the order it runs
\* them: a chat_history row per message of role "user", the assistant's row,
\* a chat_context row per context source
Inserts(messages, content, context_sources) ==
  LET asked == SelectSeq(messages, LAMBDA m : m.role = "user") IN
  [k \in 1..Len(asked) |->
     [table |-> "chat_history", role |-> "user",
      message |-> <<asked[k].content>>, source |-> 0]]
  \o <<[table |-> "chat_history", role |-> "assistant", message |-> content,
        source |-> 0]>>
  \o [k \in 1..Len(context_sources) |->
        [table |-> "chat_context", role |-> "none", message |-> <<>>,
         source |-> context_sources[k]]]

\* the frame of a save_to_history coroutine: conversation_id = str(uuid.uuid4())
SaveFrame(caller, user_id, messages, content, model, context_sources) ==
  [caller |-> caller, user_id |-> user_id, conversation_id |-> nextConv,
   model |-> model, content |-> content,
   todo |-> Inserts(messages, content, context_sources)]

\* what the caller of save_to_history does when it returns:
\* create_completion returns the response, stream_completion is exhausted,
\* rag_chat returns the response with its sources
Resume(f) ==
  CASE f.caller = "create_completion" ->
         /\ reply' = [op |-> "create_completion", user |-> f.user_id,
                      content |-> f.content]
         /\ UNCHANGED chat
    [] f.caller = "stream_completion" ->
         /\ chat' = [chat EXCEPT !.pc = "ended"]
         /\ UNCHANGED reply
    [] OTHER ->
         /\ reply' = [op |-> "rag_chat", user |-> f.user_id,
                      content |-> f.content]
         /\ UNCHANGED chat

\* save_to_history's next await self.db.execute(INSERT ...), committed on its
\* own by Database.execute. fail: the statement raises, the except clause
\* logs it and save_to_history returns. After the last INSERT it returns too.
SaveInsert(f, fail) ==
  LET ins == Head(f.todo)
      over == fail \/ Len(f.todo) = 1
  IN
  /\ f \in saves
  /\ IF fail
     THEN UNCHANGED <<chat_history, chat_context, utcnow>>
     ELSE IF ins.table = "chat_history"
     THEN /\ chat_history' = chat_history \cup
                {[user_id |-> f.user_id, conversation_id |-> f.conversation_id,
                  role |-> ins.role, message |-> ins.message,
                  model_used |-> f.model, created_at |-> utcnow]}
          /\ utcnow' = utcnow + 1
          /\ UNCHANGED chat_context
     ELSE /\ chat_context' = chat_context \cup
                {[conversation_id |-> f.conversation_id,
                  document_id |-> ins.source]}
          /\ UNCHANGED <<chat_history, utcnow>>
  /\ IF over
     THEN saves' = saves \ {f} /\ Resume(f)
     ELSE /\ saves' = (saves \ {f}) \cup {[f EXCEPT !.todo = Tail(@)]}
          /\ UNCHANGED <<chat, reply>>
  /\ UNCHANGED <<ingestion, index, clock, chatIndex, searches, results, call,
                 nCalls, caps, unhandled, seg, asm, nextConv>>

(* --------------------------- ChatService ------------------------------- *)
FilterLists(D) ==
  {<<>>} \cup {<<d>> : d \in D} \cup {<<d, e>> : <<d, e>> \in {x \in D \X D : x[1] # x[2]}}

\* rag_chat from its completion on, for a context its formatting accepted:
\* the completion is obtained and save_to_history called with the question as
\* the only message and the context as context_sources
rag_answer(u, context) ==
  /\ saves' = saves \cup
        {SaveFrame("rag_chat", u, <<[role |-> "user", content |-> "q1"]>>,
                   MockContent, NULL,
                   [k \in 1..Len(context) |-> context[k].document_id])}
  /\ nextConv' = nextConv + 1

\* rag_chat: the search (fail: it raises) and the context formatting, where
\* item['document_name'] is not a key of what this search returns, so a
\* non-empty context raises KeyError. except Exception: log and raise.
rag_chat(u, hasIds, document_ids, fail) ==
  LET context == search(chatIndex, hasIds, document_ids, RagLimit)
      raised == fail \/ context # <<>>
  IN
  /\ nCalls < caps.calls
  /\ nCalls' = nCalls + 1
  /\ hasIds \/ document_ids = <<>>
  /\ results' = IF raised THEN <<>> ELSE context
  /\ call' = [op |-> IF raised THEN "rag_chat raised" ELSE "rag_chat",
              user |-> u, hasIds |-> hasIds, ids |-> document_ids,
              limit |-> RagLimit]
  /\ IF raised
     THEN UNCHANGED <<saves, nextConv>>
     ELSE rag_answer(u, context)
  /\ UNCHANGED <<ingestion, index, clock, chatIndex, searches, caps,
                 unhandled, seg, asm, chat, chat_history, chat_context,
                 utcnow, reply>>

\* no response is waiting to be handed over
Idle == call = NoCall

\* the route hands the response to its caller, rag_chat having returned
Respond ==
  /\ call # NoCall
  /\ saves = {}
  /\ call' = NoCall
  /\ results' = <<>>
  /\ UNCHANGED <<ingestion, index, clock, chatIndex, searches, nCalls, caps, aux>>

InitRetrieval ==
  /\ Cold
  /\ seg = NoSplit /\ asm = NoAssembly /\ chat = NoChat
  /\ caps = [docs |-> RetrDocs, attempts |-> RetrAttempts,
             chunks |-> RetrChunkIds, deletes |-> RetrDeletes,
             tasks |-> RetrTasks, calls |-> MaxCalls, lens |-> RetrLens]

\* Ingestion and retrieval interleaved. A response is handed over (Respond)
\* before anything else goes on, so results and call hold the last call only.
NextRetrieval ==
  \/ \E u \in Users, len \in caps.lens, now \in BOOLEAN :
       Idle /\ add_document(u, len, now)
  \/ \E d \in DocIds, u \in Users : Idle /\ process_document(d, u)
  \/ \E t \in tasks : Idle /\ ProcFetch(t)
  \/ \E t \in tasks : Idle /\ ProcMark(t)
  \/ \E t \in tasks : Idle /\ ProcExtract(t)
  \/ \E t \in tasks, fail \in {"none", "embed", "insert"} :
       Idle /\ ProcChunk(t, fail)
  \/ \E t \in tasks : Idle /\ ProcFinal(t)
  \/ \E t \in tasks : Idle /\ ProcExcept(t)
  \/ \E d \in DocIds, u \in Users : Idle /\ delete_document(d, u)
  \/ \E d \in DocIds, u \in Users : Idle /\ DeleteFinish(d, u)
  \/ \E u \in Users, limit \in Limits : Idle /\ search_documents(u, limit)
  \/ \E s \in searches : Idle /\ SearchFinish(s)
  \/ \E u \in Users, hasIds \in BOOLEAN, ids \in FilterLists(DocIds),
        fail \in BOOLEAN :
       Idle /\ Len(ids) <= 1 /\ rag_chat(u, hasIds, ids, fail)
  \/ \E f \in saves : SaveInsert(f, FALSE)
  \/ Respond

SpecRetrieval == InitRetrieval /\ [][NextRetrieval]_vars

(* ------------------- VectorService on its own -------------------------- *)
VSAddChunk(d, c, e) ==
  /\ clock < MaxEntries
  /\ clock' = clock + 1
  /\ index' = add_chunk(index, d,
                [chunk_id |-> c, content |-> [start |-> 0, stop |-> 50],
                 embedding |-> e,
                 metadata |-> [chunk_index |-> 0, user_id |-> "u1"],
                 seq |-> clock + 1])
  /\ UNCHANGED <<ingestion, chatIndex, searches, results, call, nCalls, caps, aux>>

VSDeleteDocument(d) ==
  /\ index' = vs_delete_document(index, d)
  /\ UNCHANGED <<ingestion, clock, chatIndex, searches, results, call, nCalls,
                 caps, aux>>

VSSearch(hasIds, document_ids, limit) ==
  /\ hasIds \/ document_ids = <<>>
  /\ results' = search(index, hasIds, document_ids, limit)
  /\ call' = [op |-> "search", user |-> "none", hasIds |-> hasIds,
              ids |-> document_ids, limit |-> limit]
  /\ UNCHANGED <<ingestion, index, clock, chatIndex, searches, nCalls, caps, aux>>

NextVS ==
  \/ \E d \in 1..VSDocs, c \in 1..VSChunkIds, e \in Embeddings :
       Idle /\ VSAddChunk(d, c, e)
  \/ \E d \in 1..VSDocs : Idle /\ VSDeleteDocument(d)
  \/ \E hasIds \in BOOLEAN, ids \in FilterLists(1..VSDocs), limit \in Limits :
       Idle /\ VSSearch(hasIds, ids, limit)
  \/ Respond

SpecVS == Init /\ [][NextVS]_vars

(* ------------------- ingestion with failing statements ----------------- *)
\* The statement a process_document coroutine awaits raises: the SELECT,
\* the processing_started UPDATE, extract_text or the final UPDATE (the
\* loop's own failures are ProcChunk's). Control goes to the except clause.
ProcFault(t) ==
  /\ \/ t.pc \in {"fetch", "extract", "final"}
     \/ t.pc = "mark" /\ t.document
  /\ Step(t, [t EXCEPT !.pc = "except", !.err = "statement failed"])
  /\ UNCHANGED <<documents, files, document_chunks, index, deletes, nextDoc,
                 nextChunk, attempts, nDeletes, clock, owner, retrieval>>

\* The UPDATE inside the except clause raises: nothing encloses it, so the
\* exception leaves process_document and ends the task.
ProcExceptFault(t) ==
  /\ \/ t.pc = "except"
     \/ t.pc = "mark" /\ ~t.document
  /\ tasks' = tasks \ {t}
  /\ unhandled' = unhandled + 1
  /\ UNCHANGED <<documents, files, document_chunks, index, deletes, nextDoc,
                 nextChunk, attempts, nDeletes, clock, owner, chatIndex,
                 searches, results, call, nCalls, caps, seg, asm, chat, chatStore>>

InitFaults ==
  /\ Cold
  /\ seg = NoSplit /\ asm = NoAssembly /\ chat = NoChat
  /\ caps = [docs |-> RetrDocs, attempts |-> RetrAttempts,
             chunks |-> RetrChunkIds, deletes |-> RetrDeletes,
             tasks |-> RetrTasks, calls |-> 0, lens |-> RetrLens]

NextFaults ==
  \/ NextIngest
  \/ \E t \in tasks : ProcFault(t)
  \/ \E t \in tasks : ProcExceptFault(t)

SpecFaults == InitFaults /\ [][NextFaults]_vars

(* ------------------ FileHandler.split_text on its own ------------------ *)
\* The arguments tried: every small text with every small chunk_size and
\* overlap, valid or not, and the sizes the pipeline uses with the defaults.
SplitCalls ==
  {[len |-> n, chunk_size |-> c, overlap |-> o] :
     n \in 0..MaxLen, c \in -1..MaxSize, o \in -1..MaxSize}
  \cup {[len |-> n, chunk_size |-> ChunkSize, overlap |-> Overlap] :
          n \in {50, 900, 1500, 2500}}

Max(a, b) == IF a > b THEN a ELSE b

\* a slice bound as Python reads it: negative counts from the end, both clamp
SliceBound(len, x) == IF x < 0 THEN Max(len + x, 0) ELSE Min(x, len)

\* text[a:b] as a span of the text (empty when the bounds cross)
Slice(len, a, b) ==
  [start |-> SliceBound(len, a),
   stop |-> Max(SliceBound(len, a), SliceBound(len, b))]

\* if not text: return []; chunks = []; start = 0
SplitEnter ==
  /\ seg.pc = "call"
  /\ seg' = IF seg.len = 0
            THEN [seg EXCEPT !.pc = "returned"]
            ELSE [seg EXCEPT !.pc = "loop"]
  /\ UNCHANGED <<ingestion, index, clock, chatIndex, searches, results, call,
                 nCalls, caps, unhandled, asm, chat, chatStore>>

\* one turn of the while loop (turns beyond MaxLen + 1 are not followed)
SplitTurn ==
  /\ seg.pc = "loop"
  /\ seg.start < seg.len
  /\ Len(seg.chunks) <= MaxLen
  /\ seg' = [seg EXCEPT
               !.chunks = Append(@, Slice(seg.len, seg.start,
                                          seg.start + seg.chunk_size)),
               !.start = @ + seg.chunk_size - seg.overlap]
  /\ UNCHANGED <<ingestion, index, clock, chatIndex, searches, results, call,
                 nCalls, caps, unhandled, asm, chat, chatStore>>

\* the loop condition fails: return chunks
SplitReturn ==
  /\ seg.pc = "loop"
  /\ ~(seg.start < seg.len)
  /\ seg' = [seg EXCEPT !.pc = "returned"]
  /\ UNCHANGED <<ingestion, index, clock, chatIndex, searches, results, call,
                 nCalls, caps, unhandled, asm, chat, chatStore>>

InitSplit ==
  /\ Cold
  /\ caps = [docs |-> 0, attempts |-> 0, chunks |-> 0, deletes |-> 0,
             tasks |-> 0, calls |-> 0, lens |-> {}]
  /\ asm = NoAssembly /\ chat = NoChat
  /\ \E c \in SplitCalls :
       seg = [pc |-> "call", len |-> c.len, chunk_size |-> c.chunk_size,
              overlap |-> c.overlap, start |-> 0, chunks |-> <<>>]

NextSplit ==
  \/ SplitEnter
  \/ SplitTurn
  \/ SplitReturn

SpecSplit == InitSplit /\ [][NextSplit]_vars

(* ------------- rag_chat's context formatting on its own ---------------- *)
\* Contents are known by their length, document names are 8 characters.
\* named: the items carry a 'document_name' key (those of the Chroma-based
\* search do, those of the in-memory search do not).
SourceLists ==
  UNION {[1..n -> {[content |-> c] : c \in {100, ContentCap, 600}}] :
           n \in 0..MaxSources}

\* the budgets a deployment might set: room for two or three capped contents
Budgets == {2 * ContentCap, 3 * ContentCap}

RECURSIVE SumLen(_)
SumLen(parts) ==
  IF parts = <<>> THEN 0 ELSE Head(parts).length + SumLen(Tail(parts))

\* f"Document: {item['document_name']}\nContent: {item['content'][:500]}..."
FormatItem(k, item) ==
  LET shown == Min(item.content, ContentCap) IN
  [rank |-> k, shown |-> shown, length |-> 10 + 8 + 10 + shown + 3]

\* "\n\n".join([...]) over the whole context
Assemble ==
  LET parts == [k \in 1..Len(asm.context) |-> FormatItem(k, asm.context[k])]
  IN
  /\ asm.pc = "format"
  /\ asm' = IF asm.context # <<>> /\ ~asm.named
            THEN [asm EXCEPT !.pc = "raised"]
            ELSE [asm EXCEPT !.pc = "done", !.parts = parts,
                             !.total = SumLen(parts) + 2 * Max(Len(parts) - 1, 0)]
  /\ UNCHANGED <<ingestion, index, clock, chatIndex, searches, results, call,
                 nCalls, caps, unhandled, seg, chat, chatStore>>

InitAssemble ==
  /\ Cold
  /\ caps = [docs |-> 0, attempts |-> 0, chunks |-> 0, deletes |-> 0,
             tasks |-> 0, calls |-> 0, lens |-> {}]
  /\ seg = NoSplit /\ chat = NoChat
  /\ \E c \in SourceLists, named \in BOOLEAN, b \in Budgets :
       asm = [pc |-> "format", context |-> c, named |-> named, budget |-> b,
              parts |-> <<>>, total |-> 0]

NextAssemble == Assemble

SpecAssemble == InitAssemble /\ [][NextAssemble]_vars

(* ------------- ChatService's completions on their own ------------------ *)
\* AIService.stream_chat_completion: chunks
StreamChunks == <<<<"This", "is">>, <<"a", "streamed">>, <<"mocked", "response.">>>>

\* f"data: {json.dumps(data)}\n\n" with data = {"choices": [{"delta": {"content": c}}]}
SSE(c) == [head |-> "data: ", body |-> [kind |-> "object", content |-> c]]

\* the frame "data: [DONE]\n\n"
DoneFrame == [head |-> "data: ", body |-> [kind |-> "[DONE]", content |-> <<>>]]

\* stream_completion's reading of a frame: chunk.startswith("data: "), then
\* json.loads(chunk[6:]) and the delta's content; a body that is no JSON
\* object raises inside the try and contributes nothing
DeltaOf(frame) ==
  IF frame.head = "data: " /\ frame.body.kind = "object"
  THEN frame.body.content ELSE <<>>

\* the frames the imported AIService.stream_chat_completion yields
StubStream == [k \in 1..Len(StreamChunks) |-> SSE(StreamChunks[k])]

\* what a model backend may yield besides: a generation without any text,
\* which the Ollama-backed AIService ends with its [DONE] frame, and one
\* whose only delta is the empty string
Streams == {StubStream, <<DoneFrame>>, <<SSE(<<>>), DoneFrame>>}

\* the requests explored: messages, model and user_id
MessageLists ==
  { <<[role |-> "user", content |-> "q1"]>>,
    <<[role |-> "system", content |-> "s1"]>>,
    <<[role |-> "system", content |-> "s1"], [role |-> "user", content |-> "q1"]>>,
    <<[role |-> "user", content |-> "q1"], [role |-> "assistant", content |-> "a1"],
      [role |-> "user", content |-> "q2"]>> }

Models == {NULL, "deepseek-chat"}

\* ChatService.create_completion up to its first INSERT: the completion is
\* obtained, and with no user_id it is returned at once
create_completion(user_id, messages, model) ==
  /\ IF user_id # NULL
     THEN /\ saves' = saves \cup
                {SaveFrame("create_completion", user_id, messages,
                           MockContent, model, <<>>)}
          /\ nextConv' = nextConv + 1
          /\ UNCHANGED reply
     ELSE /\ reply' = [op |-> "create_completion", user |-> user_id,
                       content |-> MockContent]
          /\ UNCHANGED <<saves, nextConv>>
  /\ UNCHANGED <<ingestion, index, clock, chatIndex, searches, results, call,
                 nCalls, caps, unhandled, seg, asm, chat_history,
                 chat_context, utcnow>>

\* the route's call of create_completion for the request at hand
Complete ==
  /\ chat.pc # "none"
  /\ ~chat.called
  /\ chat' = [chat EXCEPT !.called = TRUE]
  /\ create_completion(chat.user_id, chat.messages, chat.model)

\* A producer that goes on without its consumer. C22 rests on the generator
\* running only when asked for its next item, and does not hold of this
\* variant.
StreamYieldDetached ==
  /\ chat.pc \in {"stream", "closed"}
  /\ chat.pos < Len(chat.backend)
  /\ chat' = [chat EXCEPT !.pc = IF chat.pc = "closed" THEN "closed" ELSE "yielded",
                          !.pos = @ + 1,
                          !.frames = Append(@, chat.backend[chat.pos + 1])]
  /\ UNCHANGED <<ingestion, index, clock, chatIndex, searches, results, call,
                 nCalls, caps, unhandled, seg, asm, chatStore>>

\* stream_completion up to its yield, run when its consumer asks for the next
\* item: the backend produces its next frame and the generator hands it over
StreamYield ==
  /\ chat.pc = "stream"
  /\ chat.pos < Len(chat.backend)
  /\ chat' = [chat EXCEPT !.pc = "yielded", !.pos = @ + 1,
                          !.frames = Append(@, chat.backend[chat.pos + 1])]
  /\ UNCHANGED <<ingestion, index, clock, chatIndex, searches, results, call,
                 nCalls, caps, unhandled, seg, asm, chatStore>>

\* stream_completion resumed after its yield: the frame's content joins
\* full_response
StreamResume ==
  /\ chat.pc = "yielded"
  /\ chat' = [chat EXCEPT
                !.pc = "stream",
                !.full_response = @ \o DeltaOf(chat.frames[Len(chat.frames)])]
  /\ UNCHANGED <<ingestion, index, clock, chatIndex, searches, results, call,
                 nCalls, caps, unhandled, seg, asm, chatStore>>

\* stream_completion after the backend's last frame: with a user_id and a
\* non-empty full_response the history is saved, else the generator is
\* exhausted at once
StreamEnd ==
  /\ chat.pc = "stream"
  /\ chat.pos = Len(chat.backend)
  /\ IF chat.user_id # NULL /\ chat.full_response # <<>>
     THEN /\ chat' = [chat EXCEPT !.pc = "saving"]
          /\ saves' = saves \cup
                {SaveFrame("stream_completion", chat.user_id, chat.messages,
                           chat.full_response, chat.model, <<>>)}
          /\ nextConv' = nextConv + 1
     ELSE /\ chat' = [chat EXCEPT !.pc = "ended"]
          /\ UNCHANGED <<saves, nextConv>>
  /\ UNCHANGED <<ingestion, index, clock, chatIndex, searches, results, call,
                 nCalls, caps, unhandled, seg, asm, chat_history,
                 chat_context, utcnow, reply>>

\* the consumer stops before the backend's sequence ends: the route's loop is
\* left by WebSocketDisconnect, or StreamingResponse's task is cancelled. The
\* generator is closed where it is suspended; its locals go with its frame.
Disconnect ==
  /\ chat.pc \in {"stream", "yielded"}
  /\ chat.pos < Len(chat.backend)
  /\ chat' = [chat EXCEPT !.pc = "closed", !.full_response = <<>>]
  /\ UNCHANGED <<ingestion, index, clock, chatIndex, searches, results, call,
                 nCalls, caps, unhandled, seg, asm, chatStore>>

NewChat(m, model, u, backend) ==
  [pc |-> "stream", messages |-> m, model |-> model, user_id |-> u,
   backend |-> backend, called |-> FALSE, pos |-> 0, frames |-> <<>>,
   full_response |-> <<>>]

NoCaps ==
  [docs |-> 0, attempts |-> 0, chunks |-> 0, deletes |-> 0, tasks |-> 0,
   calls |-> 0, lens |-> {}]

InitChat ==
  /\ Cold
  /\ caps = NoCaps
  /\ seg = NoSplit /\ asm = NoAssembly
  /\ \E m \in MessageLists, model \in Models, u \in Users \cup {NULL} :
       chat = NewChat(m, model, u, StubStream)

NextChat ==
  \/ Complete
  \/ StreamYield
  \/ StreamResume
  \/ StreamEnd
  \/ Disconnect
  \/ \E f \in saves : SaveInsert(f, FALSE)

SpecChat == InitChat /\ [][NextChat]_vars

\* the same requests against any of the streams
InitStream ==
  /\ Cold
  /\ caps = NoCaps
  /\ seg = NoSplit /\ asm = NoAssembly
  /\ \E m \in MessageLists, model \in Models, u \in Users \cup {NULL},
        b \in Streams :
       chat = NewChat(m, model, u, b)

SpecStream == InitStream /\ [][NextChat]_vars

(* --------------- ChatService's history calls on their own -------------- *)
\* GET /chat/history: limit: int = 50
DefaultLimit == 50

HistLimits == 1..MaxHistLimit \cup {DefaultLimit}

Offsets == 0..MaxOffset

\* ORDER BY created_at DESC
RECURSIVE NewestFirst(_)
NewestFirst(rows) ==
  IF rows = {} THEN <<>>
  ELSE LET m == CHOOSE x \in rows : \A y \in rows : y.created_at <= x.created_at
       IN <<m>> \o NewestFirst(rows \ {m})

\* LIMIT ? OFFSET ?
Window(rows, limit, offset) ==
  SubSeq(rows, offset + 1, Min(Len(rows), offset + limit))

\* get_history's loop over the rows: a conversation is created at the first
\* row of its id, every row is appended to its conversation's messages
RECURSIVE GroupRows(_, _)
GroupRows(rows, conversations) ==
  IF rows = <<>> THEN conversations
  ELSE LET row == Head(rows)
           msg == [role |-> row.role, content |-> row.message,
                   timestamp |-> row.created_at]
           known == \E k \in 1..Len(conversations) :
                      conversations[k].conversation_id = row.conversation_id
       IN GroupRows(Tail(rows),
            IF known
            THEN [k \in 1..Len(conversations) |->
                    IF conversations[k].conversation_id = row.conversation_id
                    THEN [conversations[k] EXCEPT !.messages = Append(@, msg)]
                    ELSE conversations[k]]
            ELSE Append(conversations,
                   [conversation_id |-> row.conversation_id,
                    messages |-> <<msg>>, created_at |-> row.created_at]))

\* ChatService.get_history
get_history(user_id, limit, offset) ==
  LET rows == Window(NewestFirst({r \in chat_history : r.user_id = user_id}),
                     limit, offset)
  IN
  /\ reply' = [op |-> "get_history", user |-> user_id, limit |-> limit,
               offset |-> offset, conversations |-> GroupRows(rows, <<>>)]
  /\ UNCHANGED <<ingestion, index, clock, chatIndex, searches, results, call,
                 nCalls, caps, unhandled, seg, asm, chat, chat_history,
                 chat_context, saves, nextConv, utcnow>>

\* ChatService.clear_history: DELETE FROM chat_history WHERE user_id = ?
\* (the connection never enables foreign keys, so nothing cascades)
clear_history(user_id) ==
  /\ chat_history' = {r \in chat_history : r.user_id # user_id}
  /\ reply' = [op |-> "clear_history", user |-> user_id]
  /\ UNCHANGED <<ingestion, index, clock, chatIndex, searches, results, call,
                 nCalls, caps, unhandled, seg, asm, chat, chat_context, saves,
                 nextConv, utcnow>>

\* the contexts of a rag_chat whose formatting succeeded: document ids
Contexts == {<<>>, <<[document_id |-> 1]>>, <<[document_id |-> 1], [document_id |-> 2]>>}

\* a create_completion request of its own
HistComplete(u, m) ==
  /\ nextConv <= MaxConversations
  /\ Cardinality(saves) < MaxSaves
  /\ create_completion(u, m, NULL)
  /\ UNCHANGED chat

\* a rag_chat request from its completion on
HistRag(u, context) ==
  /\ nextConv <= MaxConversations
  /\ Cardinality(saves) < MaxSaves
  /\ rag_answer(u, context)
  /\ UNCHANGED <<ingestion, index, clock, chatIndex, searches, results, call,
                 nCalls, caps, unhandled, seg, asm, chat, chat_history,
                 chat_context, utcnow, reply>>

InitHistory ==
  /\ Cold
  /\ caps = NoCaps
  /\ seg = NoSplit /\ asm = NoAssembly /\ chat = NoChat

NextHistory ==
  \/ \E u \in Users \cup {NULL}, m \in MessageLists : HistComplete(u, m)
  \/ \E u \in Users, c \in Contexts : HistRag(u, c)
  \/ \E f \in saves : SaveInsert(f, FALSE)
  \/ \E u \in Users, limit \in HistLimits, offset \in Offsets :
       get_history(u, limit, offset)
  \/ \E u \in Users : clear_history(u)

SpecHistory == InitHistory /\ [][NextHistory]_vars

\* the same with INSERT statements that may fail
NextHistoryFaults ==
  \/ NextHistory
  \/ \E f \in saves : SaveInsert(f, TRUE)

SpecHistoryFaults == InitHistory /\ [][NextHistoryFaults]_vars

TypeOK ==
  /\ DOMAIN documents \subseteq DocIds
  /\ nextDoc \in 1..caps.docs + 1

(* ======================= properties of ingestion ======================= *)
\* The status a document row records: an error marks it failed, otherwise
\* processed = 1 marks it processed, otherwise processing_started marks it
\* processing.
Status(row) ==
  IF row.processing_error # NULL THEN "failed"
  ELSE IF row.processed = 1 THEN "processed"
  ELSE IF row.processing_started THEN "processing"
  ELSE "pending"

\* ids that were uploaded and whose row is gone: delete_document returned True
Deleted == (1..nextDoc - 1) \ DOMAIN documents

\* the attempt is between its 'processing started' update and its last update
Running(t) == t.pc \in {"extract", "chunk", "final", "except"}

Range(f) == {f[x] : x \in DOMAIN f}

\* C1: when a processing attempt ends in its except clause, the document is
\* failed and nothing this attempt put into the vector index or into
\* document_chunks is left.
C1_FailedAttemptRolledBack ==
  [][\A t \in tasks :
       (t.pc = "except" /\ t \notin tasks') =>
         /\ t.doc \in DOMAIN documents' => Status(documents'[t.doc]) = "failed"
         /\ \A e \in AllEntries(index') : e.chunk.chunk_id \notin t.inserted
         /\ \A r \in document_chunks' : r.id \notin t.inserted]_vars

\* C2: once a document has been processed, with no attempt running, none
\* failed and nothing deleted, it has chunks_count vector entries and
\* chunks_count rows however many runs completed, and no chunk_index twice.
C2_ReprocessIdempotent ==
  \A d \in DOMAIN documents :
    ( /\ documents[d].processed = 1
      /\ documents[d].processing_error = NULL
      /\ nDeletes = 0
      /\ \A t \in tasks : t.doc # d )
    => /\ Cardinality(EntriesOf(index, d)) = documents[d].chunks_count
       /\ Cardinality(RowsOf(d)) = documents[d].chunks_count
       /\ \A r1, r2 \in RowsOf(d) : r1.chunk_index = r2.chunk_index => r1 = r2

\* C3: no two attempts for one document are running at the same time.
C3_OneAttemptPerDocument ==
  \A t1, t2 \in tasks :
    (t1 # t2 /\ t1.doc = t2.doc) => ~(Running(t1) /\ Running(t2))

\* C4: a deleted document has no document_chunks row and no vector entry,
\* in the state delete_document returns in and in every later one.
C4_DeleteLeavesNoOrphans ==
  \A d \in Deleted : RowsOf(d) = {} /\ EntriesOf(index, d) = {}

\* C5: between operations (no attempt and no delete of the document under
\* way), the rows of a processed document carry the chunk indices
\* 0 .. chunks_count-1, each exactly once.
C5_ChunkIndicesContiguous ==
  \A d \in DOMAIN documents :
    ( /\ documents[d].processed = 1
      /\ \A t \in tasks : t.doc # d
      /\ \A x \in deletes : x[1] # d ) =>
      /\ \A r \in RowsOf(d) : r.chunk_index \in 0..documents[d].chunks_count - 1
      /\ \A i \in 0..documents[d].chunks_count - 1 :
           Cardinality({r \in RowsOf(d) : r.chunk_index = i}) = 1

StatusMoves ==
  {<<"pending", "processing">>, <<"processing", "processed">>,
   <<"processing", "failed">>, <<"processed", "processing">>,
   <<"failed", "processing">>}

\* C6: the status of a document changes only along pending -> processing ->
\* processed | failed, and from processed or failed back to processing.
C6_StatusMachine ==
  [][\A d \in DOMAIN documents :
       (d \in DOMAIN documents' /\ Status(documents'[d]) # Status(documents[d]))
         => <<Status(documents[d]), Status(documents'[d])>> \in StatusMoves]_vars

\* C15: when the first attempt on a document ends without a failure (no
\* other attempt on it has ended or is under way, nothing was deleted), the
\* document is processed, processed_at is set, chunks_count is the number of
\* chunks split_text produced, and the document has that many rows and that
\* many vector entries; a text of 50 characters gives one chunk.
C15_FirstAttemptSucceeds ==
  [][\A t \in tasks :
       ( /\ t.pc = "final" /\ t \notin tasks'
         /\ t.doc \in DOMAIN documents
         /\ documents[t.doc].processed = 0
         /\ documents[t.doc].processing_error = NULL
         /\ \A t2 \in tasks \ {t} : t2.doc # t.doc
         /\ nDeletes = 0 )
       => LET d == t.doc
              n == Len(split_text(files[d], ChunkSize, Overlap))
          IN /\ Status(documents'[d]) = "processed"
             /\ documents'[d].processed_at
             /\ documents'[d].chunks_count = n
             /\ Cardinality(RowsOf(d)) = n
             /\ Cardinality(EntriesOf(index, d)) = n
             /\ files[d] = 50 => n = 1]_vars

\* a 50-character document after its only attempt: processed, one chunk
C15_Witness ==
  \E d \in DOMAIN documents :
    /\ attempts = 1 /\ tasks = {} /\ nDeletes = 0
    /\ files[d] = 50
    /\ documents[d].processed = 1 /\ documents[d].chunks_count = 1
    /\ Cardinality(RowsOf(d)) = 1

\* C16: no process_document task ends with an exception, whichever of its
\* statements fails.
C16_NoFailureEscapes == unhandled = 0

(* ======================= properties of split_text ====================== *)
\* the arguments meet chunk_size > 0 and 0 <= overlap < chunk_size
ValidSplit ==
  seg.chunk_size > 0 /\ 0 <= seg.overlap /\ seg.overlap < seg.chunk_size

Returned == seg.pc = "returned"

\* the loop computes what the operator used by the pipeline computes
SplitLoopIsSplitText ==
  (Returned /\ ValidSplit) =>
    seg.chunks = split_text(seg.len, seg.chunk_size, seg.overlap)

\* C11: a non-empty text shorter than chunk_size comes back as one chunk, the
\* whole text; the empty text comes back as no chunk.
C11_ShortTextOneChunk ==
  (Returned /\ ValidSplit /\ seg.len < seg.chunk_size) =>
    seg.chunks = IF seg.len = 0 THEN <<>>
                 ELSE <<[start |-> 0, stop |-> seg.len]>>

\* ceil(a / b) for b > 0
CeilDiv(a, b) == (a + b - 1) \div b

\* C12: a text longer than chunk_size comes back in
\* ceil((len - overlap) / (chunk_size - overlap)) chunks; 2500 characters
\* with chunk_size 1000 and overlap 200 in [0,1000), [800,1800), [1600,2500).
C12_ChunkCount ==
  (Returned /\ ValidSplit /\ seg.len > seg.chunk_size) =>
    /\ Len(seg.chunks) = CeilDiv(seg.len - seg.overlap,
                                 seg.chunk_size - seg.overlap)
    /\ (seg.len = 2500 /\ seg.chunk_size = 1000 /\ seg.overlap = 200) =>
         seg.chunks = <<[start |-> 0, stop |-> 1000],
                        [start |-> 800, stop |-> 1800],
                        [start |-> 1600, stop |-> 2500]>>

\* C13: chunk i is text[i*step : i*step + chunk_size] with
\* step = chunk_size - overlap, every position of the text lies in a chunk,
\* and two consecutive chunks share exactly overlap characters unless the
\* second of them is the last chunk.
C13_WindowsCoverAndOverlap ==
  (Returned /\ ValidSplit) =>
    LET step == seg.chunk_size - seg.overlap
        n == Len(seg.chunks)
    IN /\ \A i \in 0..n - 1 :
            seg.chunks[i + 1] = Slice(seg.len, i * step, i * step + seg.chunk_size)
       /\ \A x \in 0..seg.len - 1 :
            \E i \in 1..n : seg.chunks[i].start <= x /\ x < seg.chunks[i].stop
       /\ \A i \in 1..n - 2 :
            seg.chunks[i].stop - seg.chunks[i + 1].start = seg.overlap

\* C14: with chunk_size <= 0, overlap < 0 or overlap >= chunk_size the call
\* fails with a configuration error: it never enters the loop and never
\* returns a list.
C14_BadConfigRejected ==
  ~ValidSplit => seg.pc \in {"call", "raised"}

(* ===================== properties of VectorService ===================== *)
\* the entries a search may return: those stored under an id of the filter
Allowed(idx, hasIds, ids) ==
  {e \in AllEntries(idx) : hasIds => e.doc \in Range(ids)}

\* e ranks before f: higher score first, equal scores in insertion order
Before(e, f) == e.chunk.seq < f.chunk.seq

RECURSIVE Ranked(_)
Ranked(S) ==
  IF S = {} THEN <<>>
  ELSE LET best == CHOOSE e \in S : \A f \in S \ {e} : Before(e, f)
       IN <<best.chunk.seq>> \o Ranked(S \ {best})

\* C7: a search with a document_ids filter returns only chunks of documents
\* in the filter, and at most limit of them.
C7_FilterAndLimit ==
  (call.op = "search" /\ call.hasIds) =>
    /\ \A k \in 1..Len(results) : results[k].document_id \in Range(call.ids)
    /\ Len(results) <= call.limit

\* C8: a search returns the limit best entries of the allowed subset, best
\* first, equal scores in insertion order, whatever the order of the filter.
C8_BestKInRankOrder ==
  call.op = "search" =>
    [k \in 1..Len(results) |-> results[k].seq]
      = Take(Ranked(Allowed(index, call.hasIds, call.ids)), call.limit)

\* the entry the latest add_chunk stored
Newest(idx) == CHOOSE e \in AllEntries(idx) : e.chunk.seq = clock'

\* C10: add_chunk is an upsert: after it, the index holds one entry for the
\* chunk_id it was given, the one it was given.
C10_AddChunkUpserts ==
  [][clock' = clock + 1 =>
       \A e \in AllEntries(index') :
         e.chunk.chunk_id = Newest(index').chunk.chunk_id
           => e = Newest(index')]_vars

C17_SearchFailureDegrades == call.op # "rag_chat raised"

\* C18: the assembled context lists the sources in rank order, each with at
\* most the per-chunk cap of its content, and is no longer than the context
\* budget.
C18_ContextWithinBudget ==
  asm.pc = "done" =>
    /\ \A k \in 1..Len(asm.parts) :
         /\ asm.parts[k].rank = k
         /\ asm.parts[k].shown <= ContentCap
         /\ asm.parts[k].shown <= asm.context[k].content
    /\ Len(asm.parts) <= Len(asm.context)
    /\ asm.total <= asm.budget

(* ===================== properties of completions ======================= *)
RECURSIVE Deltas(_)
\* the delta contents of a sequence of frames, concatenated in order
Deltas(frames) ==
  IF frames = <<>> THEN <<>> ELSE DeltaOf(Head(frames)) \o Deltas(Tail(frames))

\* C19: for the same messages, the delta contents of stream_completion's
\* frames concatenated in order are the assistant content create_completion
\* returned.
C19_StreamEqualsCompletion ==
  (chat.pc = "ended" /\ reply.op = "create_completion") =>
    Deltas(chat.frames) = reply.content

\* C20: a stream that ran to its end forwarded the backend's deltas in
\* production order, each once, and then exactly one "data: [DONE]" frame,
\* which is its last frame.
C20_StreamEndsWithDone ==
  chat.pc = "ended" =>
    /\ Len(chat.frames) = Len(StreamChunks) + 1
    /\ \A k \in 1..Len(StreamChunks) : chat.frames[k] = SSE(StreamChunks[k])
    /\ chat.frames[Len(chat.frames)] = DoneFrame

(* ================= properties across the services ====================== *)
\* C26: delete_document called by a user who does not own the document
\* changes nothing: its document_chunks rows and its vector entries stay as
\* they are (and so does its row), and the call reports failure.
C26_ForeignDeleteChangesNothing ==
  [][\A d \in DOMAIN documents, u \in Users :
       (documents[d].user_id # u /\ delete_document(d, u)) =>
         /\ document_chunks' = document_chunks
         /\ index' = index
         /\ documents' = documents]_vars

\* C28: no document is at once marked processed and carrying a
\* processing_error, whatever attempts succeeded and failed on it.
C28_StatusUnambiguous ==
  \A d \in DOMAIN documents :
    ~(documents[d].processed = 1 /\ documents[d].processing_error # NULL)

\* C27: the chunks ingestion indexed are the chunks rag_chat searches: a
\* rag_chat restricted to one processed document whose chunks are indexed
\* returns those chunks as its sources.
C27_ChatSearchesIngestedChunks ==
  \A d \in DOMAIN documents :
    ( /\ call.op = "rag_chat" /\ call.hasIds /\ call.ids = <<d>>
      /\ documents[d].processed = 1
      /\ EntriesOf(index, d) # {} ) =>
      {results[k].chunk_id : k \in 1..Len(results)}
        = {e.chunk.chunk_id : e \in EntriesOf(index, d)}

(* ================== properties of streamed completions ================= *)
\* the assistant turns in the history store
AssistantTurns == {r \in chat_history : r.role = "assistant"}

\* C21: when stream_completion has reached the natural end of the backend's
\* sequence (create_completion not being called for the same request), with
\* a user id exactly one assistant turn is stored and its content is the
\* concatenation of the forwarded delta contents, the empty one included;
\* with no user id nothing is stored.
C21_StreamPersistsOneTurn ==
  (chat.pc = "ended" /\ ~chat.called) =>
    IF chat.user_id # NULL
    THEN /\ Cardinality(AssistantTurns) = 1
         /\ \A r \in AssistantTurns :
              r.user_id = chat.user_id /\ r.message = Deltas(chat.frames)
    ELSE chat_history = {}

TurnsOf(c) == {r \in chat_history : r.conversation_id = c}

\* C23: every conversation id in the history store whose save_to_history has
\* returned groups exactly one user turn and exactly one assistant turn,
\* whatever the messages list of the request was.
C23_OneUserOneAssistantTurn ==
  \A c \in {r.conversation_id : r \in chat_history} :
    (\A f \in saves : f.conversation_id # c) =>
      /\ Cardinality({r \in TurnsOf(c) : r.role = "user"}) = 1
      /\ Cardinality({r \in TurnsOf(c) : r.role = "assistant"}) = 1

\* the timestamp of the latest turn get_history returned for a conversation
Latest(conversation) ==
  CHOOSE t \in {conversation.messages[k].timestamp :
                  k \in 1..Len(conversation.messages)} :
    \A k \in 1..Len(conversation.messages) :
      conversation.messages[k].timestamp <= t

\* C24: get_history returns the conversations most recent first by their
\* latest turn, and the turns of each conversation in ascending order of
\* time.
C24_HistoryOrder ==
  reply.op = "get_history" =>
    /\ \A i, j \in 1..Len(reply.conversations) :
         i < j => Latest(reply.conversations[i]) > Latest(reply.conversations[j])
    /\ \A k \in 1..Len(reply.conversations) :
         \A i, j \in 1..Len(reply.conversations[k].messages) :
           i < j => reply.conversations[k].messages[i].timestamp
                      < reply.conversations[k].messages[j].timestamp

\* C25: clear_history(user_id) leaves no turn of that user and no
\* chat_context row of a conversation of that user, and leaves the turns and
\* chat_context rows of everybody else as they were.
C25_ClearRemovesTurnsAndContext ==
  [][\A u \in Users :
       clear_history(u) =>
         LET mine == {r.conversation_id : r \in {x \in chat_history : x.user_id = u}}
         IN /\ \A r \in chat_history' : r.user_id # u
            /\ \A x \in chat_context' : x.conversation_id \notin mine
            /\ \A r \in chat_history : r.user_id # u => r \in chat_history'
            /\ \A x \in chat_context :
                 x.conversation_id \notin mine => x \in chat_context']_vars

\* C29: whatever limit and offset, every conversation get_history returns
\* (its save_to_history having returned) holds all the turns stored under its
\* id, and no more than limit conversations are returned.
C29_PaginationKeepsConversationsWhole ==
  [][\A u \in Users, limit \in HistLimits, offset \in Offsets :
       get_history(u, limit, offset) =>
         /\ Len(reply'.conversations) <= limit
         /\ \A k \in 1..Len(reply'.conversations) :
              LET conv == reply'.conversations[k] IN
              (\A f \in saves : f.conversation_id # conv.conversation_id) =>
                {conv.messages[i].timestamp : i \in 1..Len(conv.messages)}
                  = {r.created_at : r \in TurnsOf(conv.conversation_id)}]_vars

\* C30: when an INSERT of save_to_history fails, no row of its conversation
\* id remains in chat_history or chat_context, and the caller still gets its
\* completion.
C30_SaveAllOrNothing ==
  [][\A f \in saves :
       SaveInsert(f, TRUE) =>
         /\ \A r \in chat_history' : r.conversation_id # f.conversation_id
         /\ \A x \in chat_context' : x.conversation_id # f.conversation_id
         /\ reply'.op = f.caller /\ reply'.content = f.content]_vars

====
